---- MODULE Spec2Model ----
(***************************************************************************)
(* Model of the session registry and broadcaster of                        *)
(* src/backend/websocket_handler.py (class WebSocketHandler), of the       *)
(* emotion fusion of src/backend/emotion_detector.py (EmotionDetector), of *)
(* the image pipeline of src/backend/image_preprocessing.py, of the reply  *)
(* generation of src/backend/gemini_client.py and of the HTTP routes of    *)
(* src/backend/app.py.                                                     *)
(*                                                                         *)
(* Python dicts are functions whose domain is the set of keys present:     *)
(* `k in d` is k \in DOMAIN d, `del d[k]` restricts the domain and         *)
(* d[k] on a missing key raises KeyError.  Every Socket.IO event handler   *)
(* runs as its own invocation (Flask-SocketIO starts one task per received *)
(* event); an invocation executes one source statement per step, its pc    *)
(* being the line number of the statement it executes next.                *)
(***************************************************************************)
EXTENDS Integers, FiniteSets, Sequences, TLC

\* ------------------------------------------------------------------ bounds
NumConns      == 2   \* connection ids (request.sid) 1..NumConns
MaxTime       == 3   \* readings of time.time() (one per join_session)
MaxEvents     == 4   \* client events handled in a serial run
MaxTasks      == 2   \* handler invocations in flight at the same time
MaxRaceEvents == 2   \* events (disconnects included) received in a concurrent run
MaxDim        == 2   \* heights and widths of frames and of the target size
MaxPixels     == 3   \* entries of an array normalize_brightness is called on alone
MaxWorkers    == 2   \* HTTP requests app.py serves at the same time
MaxRequests   == 3   \* HTTP requests received in a run

Conns      == 1..NumConns
Tasks      == 1..MaxTasks
SessionIds == {"default", "A"}
Labels     == {"neutral", "joy"}

\* ------------------------------------------------------------- dict helpers
\* k in d
HasKey(d, k) == k \in DOMAIN d

\* d.get(k, default)
Get(d, k, default) == IF HasKey(d, k) THEN d[k] ELSE default

\* d.update(data): keys of data overwrite, the other keys of d stay
Update(d, data) ==
  [k \in DOMAIN d \cup DOMAIN data |-> IF k \in DOMAIN data THEN data[k] ELSE d[k]]

\* d[k] = v
SetItem(d, k, v) == [x \in DOMAIN d \cup {k} |-> IF x = k THEN v ELSE d[x]]

\* a removal that empties the dict
DelItemAll(d, k) == <<>>

\* del d[k]
DelItem(d, k) == [x \in DOMAIN d \ {k} |-> d[x]]

\* an assignment that lists the key once more even when it is present
KeysAfterSetAppend(keys, k) == Append(keys, k)

\* iteration order of a dict's keys after d[k] = v: a new key goes last
KeysAfterSet(keys, k) ==
  IF \E i \in 1..Len(keys) : keys[i] = k THEN keys ELSE Append(keys, k)

\* iteration order of a dict's keys after del d[k]
KeysAfterDel(keys, k) == SelectSeq(keys, LAMBDA x : x # k)

\* all dicts with keys among keys and values in vals
Dicts(keys, vals) == UNION {[ks -> vals] : ks \in SUBSET keys}

\* ------------------------------------------------------------------ payloads
\* a payload whose keys are those of a participant record
RecordKeys == [session_id |-> "A", connected_at |-> 0]

JoinPayloads    == Dicts({"session_id"}, SessionIds \ {"default"})
EmotionPayloads == Dicts({"face", "text"}, Labels) \cup {RecordKeys}
VideoPayloads   == Dicts({"video_on"}, BOOLEAN) \cup {RecordKeys}
MicPayloads     == Dicts({"mic_on"}, BOOLEAN) \cup {RecordKeys}
MessagePayloads == {[message |-> "hi"], RecordKeys}

Payloads(event) ==
  CASE event = "join_session"   -> JoinPayloads
    [] event = "emotion_update" -> EmotionPayloads
    [] event = "video_status"   -> VideoPayloads
    [] event = "mic_status"     -> MicPayloads
    [] event = "message_sent"   -> MessagePayloads
    [] event = "ai_response"    -> MessagePayloads

UpdateEvents == {"emotion_update", "video_status", "mic_status"}
RelayEvents  == {"message_sent", "ai_response"}
ClientEvents == {"join_session"} \cup UpdateEvents \cup RelayEvents

\* first statement of each handler
Entry(event) ==
  CASE event = "disconnect"     -> 40
    [] event = "join_session"   -> 46
    [] event = "emotion_update" -> 58
    [] event = "message_sent"   -> 67
    [] event = "ai_response"    -> 74
    [] event = "video_status"   -> 81
    [] event = "mic_status"     -> 89

\* the guard of each update and relay handler, its mutating statement (0 when
\* it has none), the statement reading the session id, and its emit
CheckLine(event) == Entry(event)
MutateLine(event) ==
  CASE event = "emotion_update" -> 59
    [] event = "video_status"   -> 82
    [] event = "mic_status"     -> 90
    [] OTHER                    -> 0
ReadLine(event) ==
  CASE event = "emotion_update" -> 61
    [] event = "message_sent"   -> 68
    [] event = "ai_response"    -> 75
    [] event = "video_status"   -> 83
    [] event = "mic_status"     -> 91
EmitLine(event) ==
  CASE event = "emotion_update" -> 62
    [] event = "message_sent"   -> 69
    [] event = "ai_response"    -> 76
    [] event = "video_status"   -> 84
    [] event = "mic_status"     -> 92

\* the event each handler emits to the session's room
BroadcastName(event) ==
  CASE event = "emotion_update" -> "emotion_broadcast"
    [] event = "message_sent"   -> "message_received"
    [] event = "ai_response"    -> "ai_message"
    [] event = "video_status"   -> "video_status_update"
    [] event = "mic_status"     -> "mic_status_update"

VARIABLES
  active_sessions,  \* self.active_sessions: dict sid -> participant record
  sid_order,        \* iteration order of the keys of self.active_sessions
  rooms,            \* Socket.IO rooms entered by each sid (join_room)
  conn,             \* each connection: "new", "open", "closing", "closed"
  clock,            \* number of time.time() readings so far
  received,         \* number of client events received so far
  handlers,         \* handler invocations in flight
  emitted,          \* what the last step emitted (NoEmit when it emitted nothing)
  finished,         \* the invocation the last step ended (Idle when it ended none)
  detection,        \* a call of EmotionDetector.detect_combined_emotion
  preprocessor,     \* the ImagePreprocessor and the call it is serving
  generation,       \* a call of GeminiClient.get_response
  app               \* app.py: conversation state and the requests in flight

vars == <<active_sessions, sid_order, rooms, conn, clock, received, handlers,
          emitted, finished, detection, preprocessor, generation, app>>

\* no call of detect_combined_emotion is under way
NoDetection == [pc |-> 0, face_emotion |-> "", text_emotion |-> "",
                combined_emotion |-> ""]

\* Python's None: an unset label
None == "None"

\* Python's None where an image is expected: an array without shape
NoImage == [shape |-> <<>>, pixels |-> <<>>]

\* no method of the ImagePreprocessor has been called
NoCall == [method |-> "none", pc |-> 0, image |-> NoImage, processed |-> NoImage,
           stages |-> <<>>, status |-> "idle"]

\* ImagePreprocessor.__init__(target_size, preprocessing_method)
ImagePreprocessor(target_size, preprocessing_method) ==
  [target_size |-> target_size,
   preprocessing_method |-> preprocessing_method,
   clahe_clip_limit |-> 3,
   clahe_tile_grid_size |-> <<8, 8>>,
   clahe |-> [clipLimit |-> 3, tileGridSize |-> <<8, 8>>],
   call |-> NoCall]

\* the preprocessor app.py constructs, with the default arguments
image_preprocessor == ImagePreprocessor(<<224, 224>>, "combined")

\* no call of get_response is under way
NoGeneration == [pc |-> 0, face_emotion |-> "", text_emotion |-> "",
                 api |-> "", returned |-> "", status |-> "idle"]

\* a request without a JSON body: request.get_json() raises or returns None
NoBody == [json |-> FALSE, data |-> <<>>]

\* a request whose body is the JSON object data
JsonBody(data) == [json |-> TRUE, data |-> data]

\* a worker of the HTTP server that serves no request
NoRequest == [route |-> "none", body |-> NoBody, pc |-> 0, emotion |-> "",
              ai_response |-> "", appended |-> 0 - 1]

\* no response has been sent by the last step
NoResponse == [route |-> "none", body |-> NoBody, status |-> 0, json |-> <<>>,
               appended |-> 0 - 1]

Workers == 1..MaxWorkers

\* app.py lines 41-46: the module state after import
AppStart ==
  [conversation_history |-> <<>>,
   current_emotions |-> [face_emotion |-> "neutral", text_emotion |-> "neutral"],
   requests |-> [w \in Workers |-> NoRequest],
   received |-> 0,
   answered |-> NoResponse]

Idle   == [event |-> "none", sid |-> 0, data |-> <<>>, pc |-> 0,
           session_id |-> "", status |-> "idle", locals |-> <<>>]
NoEmit == [event |-> "none", data |-> <<>>, room |-> "", to |-> {}, sid |-> 0]

\* ------------------------------------------------- statements of the handlers
\* a handler whose guard is missing
IsJoinedAlways(reg, sid) == TRUE

\* `if request.sid in self.active_sessions:`
IsJoined(reg, sid) == HasKey(reg, sid)

\* join_room(session_id); the code never calls leave_room
JoinRoom(entered, session_id) == entered \cup {session_id}

\* a join that registers every participant under the default session
NewParticipantDefault(session_id, now) ==
  [session_id |-> "default", connected_at |-> now,
   emotions |-> [face |-> "neutral", text |-> "neutral"]]

\* the record stored for a participant by handle_join_session
NewParticipant(session_id, now) ==
  [session_id |-> session_id, connected_at |-> now,
   emotions |-> [face |-> "neutral", text |-> "neutral"]]

\* an update that resets the fields the payload does not name
MergeEmotionsReset(rec, data) ==
  [rec EXCEPT !.emotions = Update([face |-> "neutral", text |-> "neutral"], data)]

\* self.active_sessions[request.sid]['emotions'].update(data)
MergeEmotions(rec, data) == [rec EXCEPT !.emotions = Update(rec.emotions, data)]

\* self.active_sessions[request.sid]['video_on'] = data.get('video_on', False)
SetVideo(rec, data) == SetItem(rec, "video_on", Get(data, "video_on", FALSE))

\* self.active_sessions[request.sid]['mic_on'] = data.get('mic_on', False)
SetMic(rec, data) == SetItem(rec, "mic_on", Get(data, "mic_on", FALSE))

\* an update that writes the payload into the record itself
MutatedRecord(event, rec, data) == Update(rec, data)

\* the mutating statement of an update handler applied to the sender's record
Mutated(event, rec, data) ==
  CASE event = "emotion_update" -> MergeEmotions(rec, data)
    [] event = "video_status"   -> SetVideo(rec, data)
    [] event = "mic_status"     -> SetMic(rec, data)
    [] OTHER                    -> rec

\* a lookup that creates the missing record (setdefault) instead of raising
ModifyOrCreate(reg, sid, event, data) ==
  [raised |-> FALSE,
   reg |-> SetItem(reg, sid,
                   Mutated(event, IF HasKey(reg, sid) THEN reg[sid]
                                  ELSE NewParticipant("default", 0), data))]

\* `self.active_sessions[sid][...] = ...`: the lookup of sid raises KeyError
\* when the key is gone, else the record is changed in place
Modify(reg, sid, event, data) ==
  IF HasKey(reg, sid)
    THEN [raised |-> FALSE, reg |-> [reg EXCEPT ![sid] = Mutated(event, @, data)]]
    ELSE [raised |-> TRUE, reg |-> reg]

\* a broadcast of the sender's merged emotion record
BroadcastMerged(rec, data) == IF HasKey(rec, "emotions") THEN rec.emotions ELSE data

\* the payload handed to emit(..., data, room=session_id): the data received
BroadcastPayload(rec, data) == data

\* recipients of emit(..., room=room): every live connection that entered the
\* room, the sender included (include_self defaults to True)
RoomMembers(room) == {c \in Conns : room \in rooms[c] /\ conn[c] = "open"}

\* ------------------------------------------------------------ introspection
\* a listing whose filter is missing
InSessionAny(info, session_id) == TRUE

\* the filter `info['session_id'] == session_id` of get_session_info
InSession(info, session_id) == info.session_id = session_id

GetSessionInfo(session_id) ==
  LET active_clients ==
        SelectSeq(sid_order, LAMBDA sid : InSession(active_sessions[sid], session_id))
  IN  [session_id |-> session_id, active_clients |-> Len(active_clients),
       clients |-> active_clients]

\* a loop body that overwrites the clients list of the session
GroupEntryReplace(sessions, sid, info) ==
  SetItem(sessions, info.session_id,
          [session_id |-> info.session_id, clients |-> <<sid>>,
           created_at |-> info.connected_at])

\* the body of the loop of get_all_sessions for one item (sid, info)
GroupEntry(sessions, sid, info) ==
  LET session_id == info.session_id
      entry      == IF HasKey(sessions, session_id)
                      THEN sessions[session_id]
                      ELSE [session_id |-> session_id, clients |-> <<>>,
                            created_at |-> info.connected_at]
  IN  SetItem(sessions, session_id, [entry EXCEPT !.clients = Append(@, sid)])

\* the loop of get_all_sessions over the first n keys of active_sessions
RECURSIVE AllSessionsUpTo(_)
AllSessionsUpTo(n) ==
  IF n = 0 THEN <<>>
  ELSE GroupEntry(AllSessionsUpTo(n - 1), sid_order[n],
                  active_sessions[sid_order[n]])

GetAllSessions == AllSessionsUpTo(Len(sid_order))

\* ----------------------------------------------------------------- serial run
Init ==
  /\ active_sessions = <<>>
  /\ sid_order = <<>>
  /\ rooms = [c \in Conns |-> {}]
  /\ conn = [c \in Conns |-> "new"]
  /\ clock = 0
  /\ received = 0
  /\ handlers = [t \in Tasks |-> Idle]
  /\ emitted = NoEmit
  /\ finished = Idle
  /\ detection = NoDetection
  /\ preprocessor = image_preprocessor
  /\ generation = NoGeneration
  /\ app = AppStart

\* the invocation of `event` for sid that returned after executing `line`
Done(event, sid, data, line, session_id) ==
  [event |-> event, sid |-> sid, data |-> data, pc |-> line,
   session_id |-> session_id, status |-> "done", locals |-> <<>>]

EmitTo(event, data, room, to, sid) ==
  [event |-> event, data |-> data, room |-> room, to |-> to, sid |-> sid]

\* handle_connect: a new connection is accepted and told so
HandleConnect(c) ==
  /\ conn[c] = "new"
  /\ conn' = [conn EXCEPT ![c] = "open"]
  /\ emitted' = EmitTo("connected", [status |-> "success"], "", {c}, c)
  /\ finished' = Done("connect", c, <<>>, 34, "")
  /\ UNCHANGED <<active_sessions, sid_order, rooms, clock, received, handlers>>
  /\ UNCHANGED <<detection, preprocessor, generation, app>>

\* handle_disconnect, and the server dropping the sid from its rooms after it;
\* the handler can be run again for a sid that is already gone
HandleDisconnect(c) ==
  /\ conn[c] \in {"open", "closed"}
  /\ conn' = [conn EXCEPT ![c] = "closed"]
  /\ IF IsJoined(active_sessions, c)
       THEN /\ active_sessions' = DelItem(active_sessions, c)
            /\ sid_order' = KeysAfterDel(sid_order, c)
            /\ finished' = Done("disconnect", c, <<>>, 41, "")
       ELSE /\ UNCHANGED <<active_sessions, sid_order>>
            /\ finished' = Done("disconnect", c, <<>>, 40, "")
  /\ rooms' = [rooms EXCEPT ![c] = {}]
  /\ emitted' = NoEmit
  /\ UNCHANGED <<clock, received, handlers>>
  /\ UNCHANGED <<detection, preprocessor, generation, app>>

\* handle_join_session
HandleJoinSession(c, data) ==
  /\ conn[c] = "open"
  /\ received < MaxEvents
  /\ clock < MaxTime
  /\ received' = received + 1
  /\ clock' = clock + 1
  /\ LET session_id == Get(data, "session_id", "default")
         rec        == NewParticipant(session_id, clock + 1)
     IN  /\ rooms' = [rooms EXCEPT ![c] = JoinRoom(@, session_id)]
         /\ active_sessions' = SetItem(active_sessions, c, rec)
         /\ sid_order' = KeysAfterSet(sid_order, c)
         /\ emitted' = EmitTo("session_joined", [session_id |-> session_id],
                              "", {c}, c)
         /\ finished' = Done("join_session", c, data, 53, session_id)
  /\ UNCHANGED <<conn, handlers>>
  /\ UNCHANGED <<detection, preprocessor, generation, app>>

\* handle_emotion_update, handle_video_status, handle_mic_status (which
\* mutate the sender's record) and handle_message_sent, handle_ai_response
\* (which do not), each guarded by the same test
HandleUpdate(c, event, data) ==
  /\ conn[c] = "open"
  /\ received < MaxEvents
  /\ received' = received + 1
  /\ IF IsJoined(active_sessions, c)
       THEN LET reg        == Modify(active_sessions, c, event, data).reg
                session_id == reg[c].session_id
            IN  /\ active_sessions' = reg
                /\ emitted' = EmitTo(BroadcastName(event),
                                     BroadcastPayload(reg[c], data), session_id,
                                     RoomMembers(session_id), c)
                /\ finished' = Done(event, c, data, EmitLine(event), session_id)
       ELSE /\ UNCHANGED active_sessions
            /\ emitted' = NoEmit
            /\ finished' = Done(event, c, data, CheckLine(event), "")
  /\ UNCHANGED <<sid_order, rooms, conn, clock, handlers>>
  /\ UNCHANGED <<detection, preprocessor, generation, app>>

HandleEmotionUpdate(c, data) == HandleUpdate(c, "emotion_update", data)
HandleMessageSent(c, data)   == HandleUpdate(c, "message_sent", data)
HandleAiResponse(c, data)    == HandleUpdate(c, "ai_response", data)
HandleVideoStatus(c, data)   == HandleUpdate(c, "video_status", data)
HandleMicStatus(c, data)     == HandleUpdate(c, "mic_status", data)

Next ==
  \/ \E c \in Conns : HandleConnect(c)
  \/ \E c \in Conns : HandleDisconnect(c)
  \/ \E c \in Conns, data \in JoinPayloads : HandleJoinSession(c, data)
  \/ \E c \in Conns, data \in EmotionPayloads : HandleEmotionUpdate(c, data)
  \/ \E c \in Conns, data \in MessagePayloads : HandleMessageSent(c, data)
  \/ \E c \in Conns, data \in MessagePayloads : HandleAiResponse(c, data)
  \/ \E c \in Conns, data \in VideoPayloads : HandleVideoStatus(c, data)
  \/ \E c \in Conns, data \in MicPayloads : HandleMicStatus(c, data)

\* handlers run one at a time, each to completion
Spec == Init /\ [][Next]_vars

\* ------------------------------------------------------------ concurrent run
\* Every connection is open; each has joined no session yet or has joined
\* one (in the order of the connection ids) and sent nothing since.
RaceInit ==
  \E joined \in [Conns -> SessionIds \cup {"none"}] :
    LET members == {c \in Conns : joined[c] # "none"}
        rank(c) == Cardinality({d \in members : d <= c})
    IN  /\ active_sessions = [c \in members |-> NewParticipant(joined[c], rank(c))]
        /\ sid_order = SelectSeq([c \in Conns |-> c], LAMBDA c : c \in members)
        /\ rooms = [c \in Conns |-> IF c \in members THEN {joined[c]} ELSE {}]
        /\ conn = [c \in Conns |-> "open"]
        /\ clock = Cardinality(members)
        /\ received = 0
        /\ handlers = [t \in Tasks |-> Idle]
        /\ emitted = NoEmit
        /\ finished = Idle
        /\ detection = NoDetection
        /\ preprocessor = image_preprocessor
        /\ generation = NoGeneration
        /\ app = AppStart

Running(t, line) == handlers[t].status = "running" /\ handlers[t].pc = line

\* calls of get_session_info / get_all_sessions made while handlers run; the
\* line of the loop over self.active_sessions.items() of each
Introspections == {"get_session_info", "get_all_sessions"}
IterLine(call) == IF call = "get_session_info" THEN 125 ELSE 143
InfoArgs       == {[session_id |-> s] : s \in SessionIds}
IsReader(h)    == h.status = "running" /\ h.event \in Introspections

\* who is registered where
Membership(reg) == [c \in DOMAIN reg |-> reg[c].session_id]

IndexOf(keys, k) == CHOOSE i \in 1..Len(keys) : keys[i] = k

\* a registry write seen from the calls in flight: each keeps the memberships
\* the registry went through since the call started
Observe(hs, reg) ==
  [u \in Tasks |-> IF IsReader(hs[u])
                     THEN [hs[u] EXCEPT !.locals.seen = @ \cup {Membership(reg)}]
                     ELSE hs[u]]

\* `del` of the i-th key seen from the dict iterators in flight: the entry
\* becomes a hole, so an iterator that is past it has one live entry less
\* behind it
Shifted(hs, i) ==
  [u \in Tasks |-> IF IsReader(hs[u]) /\ hs[u].locals.pos >= i
                     THEN [hs[u] EXCEPT !.locals.pos = @ - 1]
                     ELSE hs[u]]

Goto(t, line) ==
  /\ handlers' = [handlers EXCEPT ![t].pc = line]
  /\ finished' = Idle

\* the handler returns; finished keeps the statement it executed last
Finish(t) ==
  /\ handlers' = [handlers EXCEPT ![t] = Idle]
  /\ finished' = [handlers[t] EXCEPT !.status = "done"]

\* the handler is aborted by the exception its current statement raises
Raise(t) ==
  /\ handlers' = [handlers EXCEPT ![t] = Idle]
  /\ finished' = [handlers[t] EXCEPT !.status = "raised"]

\* an event is received: its handler is started in the first free slot
Start(t, event, sid, data) ==
  /\ handlers[t].status = "idle"
  /\ \A u \in Tasks : u < t => handlers[u].status # "idle"
  /\ handlers' = [handlers EXCEPT ![t] =
       [event |-> event, sid |-> sid, data |-> data, pc |-> Entry(event),
        session_id |-> "", status |-> "running", locals |-> <<>>]]
  /\ emitted' = NoEmit
  /\ finished' = Idle

\* an open connection sends an event
Receive(t, c, event, data) ==
  /\ conn[c] = "open"
  /\ received < MaxRaceEvents
  /\ received' = received + 1
  /\ Start(t, event, c, data)
  /\ UNCHANGED <<active_sessions, sid_order, rooms, conn, clock>>
  /\ UNCHANGED <<detection, preprocessor, generation, app>>

\* an open connection goes away: the disconnect event is dispatched
Close(t, c) ==
  /\ conn[c] = "open"
  /\ received < MaxRaceEvents
  /\ received' = received + 1
  /\ conn' = [conn EXCEPT ![c] = "closing"]
  /\ Start(t, "disconnect", c, <<>>)
  /\ UNCHANGED <<active_sessions, sid_order, rooms, clock>>
  /\ UNCHANGED <<detection, preprocessor, generation, app>>

\* line 40: `if request.sid in self.active_sessions:`; when the handler is
\* over the server drops the sid from every room it entered
DisconnectCheck(t) ==
  /\ Running(t, 40)
  /\ emitted' = NoEmit
  /\ IF IsJoined(active_sessions, handlers[t].sid)
       THEN Goto(t, 41) /\ UNCHANGED <<rooms, conn>>
       ELSE /\ Finish(t)
            /\ rooms' = [rooms EXCEPT ![handlers[t].sid] = {}]
            /\ conn' = [conn EXCEPT ![handlers[t].sid] = "closed"]
  /\ UNCHANGED <<active_sessions, sid_order, clock, received>>
  /\ UNCHANGED <<detection, preprocessor, generation, app>>

\* line 41: `del self.active_sessions[request.sid]`
DisconnectDelete(t) ==
  /\ Running(t, 41)
  /\ emitted' = NoEmit
  /\ IF HasKey(active_sessions, handlers[t].sid)
       THEN LET reg == DelItem(active_sessions, handlers[t].sid) IN
            /\ active_sessions' = reg
            /\ sid_order' = KeysAfterDel(sid_order, handlers[t].sid)
            /\ handlers' = Observe(Shifted([handlers EXCEPT ![t] = Idle],
                                           IndexOf(sid_order, handlers[t].sid)), reg)
            /\ finished' = [handlers[t] EXCEPT !.status = "done"]
       ELSE UNCHANGED <<active_sessions, sid_order>> /\ Raise(t)
  /\ rooms' = [rooms EXCEPT ![handlers[t].sid] = {}]
  /\ conn' = [conn EXCEPT ![handlers[t].sid] = "closed"]
  /\ UNCHANGED <<clock, received>>
  /\ UNCHANGED <<detection, preprocessor, generation, app>>

\* lines 46-47: session_id = data.get('session_id', 'default');
\* join_room(session_id).  For a sid the server has already dropped,
\* join_room enters the room or raises, depending on the library release.
JoinEnterRoom(t) ==
  /\ Running(t, 46)
  /\ emitted' = NoEmit
  /\ LET session_id == Get(handlers[t].data, "session_id", "default") IN
       \/ /\ rooms' = [rooms EXCEPT ![handlers[t].sid] = JoinRoom(@, session_id)]
          /\ handlers' = [handlers EXCEPT ![t].session_id = session_id, ![t].pc = 48]
          /\ finished' = Idle
       \/ /\ conn[handlers[t].sid] = "closed"
          /\ Raise(t)
          /\ UNCHANGED rooms
  /\ UNCHANGED <<active_sessions, sid_order, conn, clock, received>>
  /\ UNCHANGED <<detection, preprocessor, generation, app>>

\* lines 48-52: self.active_sessions[request.sid] = {...}
JoinRegister(t) ==
  /\ Running(t, 48)
  /\ clock < MaxTime
  /\ emitted' = NoEmit
  /\ clock' = clock + 1
  /\ LET reg == SetItem(active_sessions, handlers[t].sid,
                        NewParticipant(handlers[t].session_id, clock + 1))
     IN  /\ active_sessions' = reg
         /\ handlers' = Observe([handlers EXCEPT ![t].pc = 53], reg)
         /\ finished' = Idle
  /\ sid_order' = KeysAfterSet(sid_order, handlers[t].sid)
  /\ UNCHANGED <<rooms, conn, received>>
  /\ UNCHANGED <<detection, preprocessor, generation, app>>

\* line 53: emit('session_joined', {'session_id': session_id})
JoinAck(t) ==
  /\ Running(t, 53)
  /\ emitted' = EmitTo("session_joined", [session_id |-> handlers[t].session_id], "",
                       {handlers[t].sid} \cap {c \in Conns : conn[c] = "open"},
                       handlers[t].sid)
  /\ Finish(t)
  /\ UNCHANGED <<active_sessions, sid_order, rooms, conn, clock, received>>
  /\ UNCHANGED <<detection, preprocessor, generation, app>>

\* lines 58, 67, 74, 81, 89: `if request.sid in self.active_sessions:`
UpdateCheck(t) ==
  /\ handlers[t].event \in UpdateEvents \cup RelayEvents
  /\ Running(t, CheckLine(handlers[t].event))
  /\ emitted' = NoEmit
  /\ IF IsJoined(active_sessions, handlers[t].sid)
       THEN Goto(t, IF handlers[t].event \in UpdateEvents
                      THEN MutateLine(handlers[t].event)
                      ELSE ReadLine(handlers[t].event))
       ELSE Finish(t)
  /\ UNCHANGED <<active_sessions, sid_order, rooms, conn, clock, received>>
  /\ UNCHANGED <<detection, preprocessor, generation, app>>

\* lines 59, 82, 90: the sender's record is changed
UpdateMutate(t) ==
  /\ handlers[t].event \in UpdateEvents
  /\ Running(t, MutateLine(handlers[t].event))
  /\ emitted' = NoEmit
  /\ LET res == Modify(active_sessions, handlers[t].sid, handlers[t].event,
                       handlers[t].data)
     IN  /\ active_sessions' = res.reg
         /\ IF res.raised THEN Raise(t) ELSE Goto(t, ReadLine(handlers[t].event))
  /\ UNCHANGED <<sid_order, rooms, conn, clock, received>>
  /\ UNCHANGED <<detection, preprocessor, generation, app>>

\* lines 61, 68, 75, 83, 91:
\* session_id = self.active_sessions[request.sid]['session_id']
UpdateReadSession(t) ==
  /\ handlers[t].event \in UpdateEvents \cup RelayEvents
  /\ Running(t, ReadLine(handlers[t].event))
  /\ emitted' = NoEmit
  /\ IF HasKey(active_sessions, handlers[t].sid)
       THEN /\ handlers' = [handlers EXCEPT
                 ![t].session_id = active_sessions[handlers[t].sid].session_id,
                 ![t].pc = EmitLine(handlers[t].event)]
            /\ finished' = Idle
       ELSE Raise(t)
  /\ UNCHANGED <<active_sessions, sid_order, rooms, conn, clock, received>>
  /\ UNCHANGED <<detection, preprocessor, generation, app>>

\* lines 62, 69, 76, 84, 92: emit(..., data, room=session_id)
UpdateBroadcast(t) ==
  /\ handlers[t].event \in UpdateEvents \cup RelayEvents
  /\ Running(t, EmitLine(handlers[t].event))
  /\ emitted' = EmitTo(BroadcastName(handlers[t].event),
                       BroadcastPayload(Get(active_sessions, handlers[t].sid, <<>>),
                                        handlers[t].data),
                       handlers[t].session_id,
                       RoomMembers(handlers[t].session_id), handlers[t].sid)
  /\ Finish(t)
  /\ UNCHANGED <<active_sessions, sid_order, rooms, conn, clock, received>>
  /\ UNCHANGED <<detection, preprocessor, generation, app>>

\* get_session_info(session_id) or get_all_sessions() is called: the loop
\* creates the iterator of self.active_sessions.items(), which remembers the
\* size of the dict
Call(t, call, data) ==
  /\ received < MaxRaceEvents
  /\ received' = received + 1
  /\ handlers[t].status = "idle"
  /\ \A u \in Tasks : u < t => handlers[u].status # "idle"
  /\ handlers' = [handlers EXCEPT ![t] =
       [event |-> call, sid |-> 0, data |-> data, pc |-> IterLine(call),
        session_id |-> "", status |-> "running",
        locals |-> [size |-> Len(sid_order), pos |-> 0, yielded |-> 0,
                    result |-> <<>>, seen |-> {Membership(active_sessions)}]]]
  /\ emitted' = NoEmit
  /\ finished' = Idle
  /\ UNCHANGED <<active_sessions, sid_order, rooms, conn, clock>>
  /\ UNCHANGED <<detection, preprocessor, generation, app>>

\* the value the call returns once its loop is over (lines 129-133, 153)
ReturnValue(h) ==
  IF h.event = "get_session_info"
    THEN [session_id |-> h.data.session_id,
          active_clients |-> Len(h.locals.result), clients |-> h.locals.result]
    ELSE h.locals.result

\* the loop body for the item (sid, info) (lines 125-126, 144-151)
LoopBody(h, sid, info) ==
  IF h.event = "get_session_info"
    THEN IF InSession(info, h.data.session_id)
           THEN Append(h.locals.result, sid) ELSE h.locals.result
    ELSE GroupEntry(h.locals.result, sid, info)

\* lines 125, 143: one step of the loop.  The iterator raises RuntimeError
\* when the dict has not the size it had when the iterator was created;
\* else it yields the next live entry, or ends the loop when none is left.
\* When it has already yielded as many items as the dict had, a next entry
\* makes some CPython releases raise RuntimeError and others yield it.
IterNext(t) ==
  /\ IsReader(handlers[t])
  /\ emitted' = NoEmit
  /\ LET h == handlers[t]
         l == h.locals
     IN  IF Len(sid_order) # l.size THEN Raise(t)
         ELSE IF l.pos < Len(sid_order)
           THEN \/ /\ handlers' = [handlers EXCEPT ![t].locals =
                          [l EXCEPT !.pos = @ + 1, !.yielded = @ + 1,
                                    !.result = LoopBody(h, sid_order[l.pos + 1],
                                                 active_sessions[sid_order[l.pos + 1]])]]
                   /\ finished' = Idle
                \/ /\ l.yielded >= l.size
                   /\ Raise(t)
           ELSE /\ handlers' = [handlers EXCEPT ![t] = Idle]
                /\ finished' = [h EXCEPT !.status = "done",
                                         !.locals.result = ReturnValue(h)]
  /\ UNCHANGED <<active_sessions, sid_order, rooms, conn, clock, received>>
  /\ UNCHANGED <<detection, preprocessor, generation, app>>

NextRace ==
  \/ \E t \in Tasks, c \in Conns, event \in ClientEvents :
       \E data \in Payloads(event) : Receive(t, c, event, data)
  \/ \E t \in Tasks, c \in Conns : Close(t, c)
  \/ \E t \in Tasks : DisconnectCheck(t)
  \/ \E t \in Tasks : DisconnectDelete(t)
  \/ \E t \in Tasks : JoinEnterRoom(t)
  \/ \E t \in Tasks : JoinRegister(t)
  \/ \E t \in Tasks : JoinAck(t)
  \/ \E t \in Tasks : UpdateCheck(t)
  \/ \E t \in Tasks : UpdateMutate(t)
  \/ \E t \in Tasks : UpdateReadSession(t)
  \/ \E t \in Tasks : UpdateBroadcast(t)
  \/ \E t \in Tasks, data \in InfoArgs : Call(t, "get_session_info", data)
  \/ \E t \in Tasks : Call(t, "get_all_sessions", <<>>)
  \/ \E t \in Tasks : IterNext(t)

\* handlers run concurrently, interleaved statement by statement
SpecRace == RaceInit /\ [][NextRace]_vars

\* ------------------------------------------------------------ emotion fusion
\* src/backend/emotion_detector.py, EmotionDetector._combine_emotions

\* self.emotion_labels: the labels of the text classifier
emotion_labels ==
  {"admiration", "amusement", "anger", "annoyance", "approval", "caring",
   "confusion", "curiosity", "desire", "disappointment", "disapproval",
   "disgust", "embarrassment", "excitement", "fear", "gratitude", "grief",
   "joy", "love", "nervousness", "optimism", "pride", "realization", "relief",
   "remorse", "sadness", "surprise", "neutral"}

\* the labels of the face classifier: the keys of DeepFace's emotion scores,
\* of which detect_face_emotion returns the dominant one
FaceLabels == {"angry", "disgust", "fear", "happy", "sad", "surprise", "neutral"}

\* the values _combine_emotions is applied to
FusionInputs == emotion_labels \cup FaceLabels \cup {None}

\* a table that ranks joy as high as sadness
emotion_priority_joy3 ==
  [sadness |-> 3, anger |-> 3, fear |-> 3, joy |-> 3, surprise |-> 2,
   disgust |-> 2, neutral |-> 1]

\* the dict emotion_priority
emotion_priority ==
  [sadness |-> 3, anger |-> 3, fear |-> 3, joy |-> 2, surprise |-> 2,
   disgust |-> 2, neutral |-> 1]

\* a shortcut that reports agreement as neutral
SameEmotionNeutral(face_emotion, text_emotion) == "neutral"

\* line 278: the value returned when the two labels are equal
SameEmotion(face_emotion, text_emotion) == face_emotion

\* a tie resolved in favour of the face
TieFace(face_emotion, text_emotion) == face_emotion

\* line 299: the value returned when the two priorities are equal
Tie(face_emotion, text_emotion) == text_emotion

\* a fusion that ranks a label missing from the table above every entry of it
combine_emotions_default4(face_emotion, text_emotion) ==
  IF face_emotion = text_emotion THEN face_emotion
  ELSE LET face_priority == Get(emotion_priority, face_emotion, 4)
           text_priority == Get(emotion_priority, text_emotion, 4)
       IN  IF face_priority > text_priority THEN face_emotion
           ELSE text_emotion

\* _combine_emotions(face_emotion, text_emotion)
combine_emotions(face_emotion, text_emotion) ==
  IF face_emotion = text_emotion THEN SameEmotion(face_emotion, text_emotion)
  ELSE LET face_priority == Get(emotion_priority, face_emotion, 1)
           text_priority == Get(emotion_priority, text_emotion, 1)
       IN  IF face_priority > text_priority THEN face_emotion
           ELSE IF text_priority > face_priority THEN text_emotion
           ELSE Tie(face_emotion, text_emotion)

\* detect_combined_emotion has the two labels (lines 248-249) and is about
\* to combine them
FusionInit ==
  /\ Init!1 /\ Init!2 /\ Init!3 /\ Init!4 /\ Init!5 /\ Init!6 /\ Init!7
  /\ Init!8 /\ Init!9 /\ Init!11 /\ Init!12 /\ Init!13
  /\ \E face_emotion \in FusionInputs, text_emotion \in FusionInputs :
       detection = [pc |-> 252, face_emotion |-> face_emotion,
                    text_emotion |-> text_emotion, combined_emotion |-> ""]

\* line 252: combined_emotion = self._combine_emotions(face_emotion, text_emotion)
CombineEmotions ==
  /\ detection.pc = 252
  /\ detection' = [detection EXCEPT
       !.pc = 254,
       !.combined_emotion = combine_emotions(detection.face_emotion,
                                             detection.text_emotion)]
  /\ UNCHANGED <<active_sessions, sid_order, rooms, conn, clock, received,
                 handlers, emitted, finished, preprocessor, generation, app>>

NextFusion == CombineEmotions

SpecFusion == FusionInit /\ [][NextFusion]_vars

\* --------------------------------------------------------- image conditioning
\* src/backend/image_preprocessing.py, class ImagePreprocessor.  A frame is a
\* numpy array: its shape (height, width) or (height, width, 3) and its
\* entries, flattened.  The entries OpenCV computes are not modelled: a cv2
\* call yields a frame of the shape OpenCV documents whose entries are one of
\* Patterns.  normalize_brightness is numpy arithmetic and is computed.

\* the values of the enum PreprocessingMethod
PreprocessingMethod ==
  {"grayscale_equalization", "color_equalization", "clahe", "clahe_color",
   "brightness_normalization", "contrast_enhancement", "combined"}

PixelLevels == {0, 100, 255}

Frame(shape, pixels) == [shape |-> shape, pixels |-> pixels]

\* image.size
Size(shape) ==
  IF Len(shape) = 3 THEN shape[1] * shape[2] * shape[3] ELSE shape[1] * shape[2]

\* the entries of an array of n entries: all of one level, or one bright
\* entry in a dark array
Patterns(n) ==
  {[i \in 1..n |-> v] : v \in PixelLevels} \cup
  {[i \in 1..n |-> IF i = 1 THEN 255 ELSE 0]}

\* frames of one shape with entries computed by OpenCV
CvFrames(shape) == {Frame(shape, pixels) : pixels \in Patterns(Size(shape))}

\* grayscale and BGR frames, the empty ones included
Shapes ==
  {<<h, w>> : h \in 0..MaxDim, w \in 0..MaxDim} \cup
  {<<h, w, 3>> : h \in 0..MaxDim, w \in 0..MaxDim}

InputFrames == UNION {CvFrames(shape) : shape \in Shapes}

\* the arrays normalize_brightness is called on alone: one row of entries
RowFrames ==
  UNION {{Frame(<<1, n>>, pixels) : pixels \in [1..n -> PixelLevels]} :
           n \in 1..MaxPixels}

\* a resize that reads target_size as (height, width)
ResizedShapeSwapped(target_size, shape) ==
  <<target_size[1], target_size[2]>> \o SubSeq(shape, 3, Len(shape))

\* shape of cv2.resize(image, dsize): dsize is (width, height), the result has
\* dsize[1] rows, dsize[0] columns and the channels of the image
ResizedShape(target_size, shape) ==
  <<target_size[2], target_size[1]>> \o SubSeq(shape, 3, Len(shape))

\* cv2.resize fails on an image without rows or columns
IsEmpty(image) == Size(image.shape) = 0

\* resize_image(image)
resize_image(self, image) == CvFrames(ResizedShape(self.target_size, image.shape))

\* reduce_noise(image): cv2.bilateralFilter keeps the shape
reduce_noise(self, image) == CvFrames(image.shape)

\* shape of cv2.cvtColor(image, cv2.COLOR_BGR2GRAY), or of image.copy() when
\* the image is grayscale already
GrayShape(shape) == <<shape[1], shape[2]>>

\* grayscale_equalization(image)
grayscale_equalization(self, image) == CvFrames(GrayShape(image.shape))

\* color_equalization(image)
color_equalization(self, image) ==
  IF Len(image.shape) # 3 THEN {image} ELSE CvFrames(image.shape)

\* apply_clahe_grayscale(image)
apply_clahe_grayscale(self, image) == CvFrames(GrayShape(image.shape))

\* apply_clahe_color(image)
apply_clahe_color(self, image) ==
  IF Len(image.shape) # 3 THEN {image} ELSE CvFrames(image.shape)

\* the default of normalize_brightness's target_brightness
target_brightness == 128

RECURSIVE Sum(_)
Sum(pixels) == IF pixels = <<>> THEN 0 ELSE Head(pixels) + Sum(Tail(pixels))

\* a conversion to uint8 without np.clip: the value wraps
ClipWrap(x, lo, hi) == x % (hi + 1)

\* np.clip(x, lo, hi)
Clip(x, lo, hi) == IF x < lo THEN lo ELSE IF x > hi THEN hi ELSE x

\* line 170: current_brightness > 0, the mean being Sum / Len
IsLit(image) == Sum(image.pixels) > 0

\* line 173: np.clip(image * adjustment, 0, 255).astype(np.uint8) with
\* adjustment = target / (Sum / Len); astype truncates
Adjusted(pixels, target) ==
  [i \in 1..Len(pixels) |->
     Clip((pixels[i] * target * Len(pixels)) \div Sum(pixels), 0, 255)]

\* normalize_brightness(image, target_brightness)
normalize_brightness(image, target) ==
  IF IsLit(image) THEN Frame(image.shape, Adjusted(image.pixels, target))
  ELSE image

\* enhance_contrast(image, alpha, beta): cv2.convertScaleAbs keeps the shape
enhance_contrast(self, image) == CvFrames(image.shape)

\* the first statement of the branch preprocess takes (lines 210-240)
Dispatch(method) ==
  CASE method = "grayscale_equalization"   -> 211
    [] method = "color_equalization"       -> 216
    [] method = "clahe"                    -> 221
    [] method = "clahe_color"              -> 226
    [] method = "brightness_normalization" -> 231
    [] method = "contrast_enhancement"     -> 236
    [] method = "combined"                 -> 242
    [] OTHER                               -> 257

\* the statements of preprocess that call resize_image and reduce_noise
ResizeLines        == {211, 216, 221, 226, 231, 236, 242}
DenoiseLines       == {212, 217, 222, 227, 232, 237, 243}

\* a pipeline in which denoising is skipped
AfterSkipDenoise(pc, processed) ==
  CASE pc = 242            -> IF Len(processed.shape) = 3 THEN 247 ELSE 249
    [] pc \in ResizeLines  -> pc + 2
    [] pc \in {247, 249}   -> 252
    [] pc = 252            -> 255
    [] OTHER               -> 257

\* the statement preprocess executes after the one at pc, processed being the
\* value the statement at pc assigned (line 246 tests its shape)
After(pc, processed) ==
  CASE pc \in ResizeLines  -> pc + 1
    [] pc = 243            -> IF Len(processed.shape) = 3 THEN 247 ELSE 249
    [] pc \in DenoiseLines -> pc + 1
    [] pc \in {247, 249}   -> 252
    [] pc = 252            -> 255
    [] OTHER               -> 257

ImageIdle ==
  UNCHANGED <<active_sessions, sid_order, rooms, conn, clock, received,
              handlers, emitted, finished, detection, generation, app>>

\* the preprocessor after construction, with any target size and method
ImageInit ==
  /\ Init!1 /\ Init!2 /\ Init!3 /\ Init!4 /\ Init!5 /\ Init!6 /\ Init!7
  /\ Init!8 /\ Init!9 /\ Init!10 /\ Init!12 /\ Init!13
  /\ \E target_size \in (1..MaxDim) \X (1..MaxDim), method \in PreprocessingMethod :
       preprocessor = ImagePreprocessor(target_size, method)

Serving == preprocessor.call.status = "running"

\* the preprocessor has served no call yet
Fresh == preprocessor.call.status = "idle"

\* set_preprocessing_method(method)
SetPreprocessingMethod(method) ==
  /\ ~Serving
  /\ preprocessor' = [preprocessor EXCEPT !.preprocessing_method = method]
  /\ ImageIdle

\* set_clahe_parameters(clip_limit, tile_grid_size)
SetClaheParameters(clip_limit, tile_grid_size) ==
  /\ ~Serving
  /\ preprocessor' = [preprocessor EXCEPT
       !.clahe_clip_limit = clip_limit,
       !.clahe_tile_grid_size = tile_grid_size,
       !.clahe = [clipLimit |-> clip_limit, tileGridSize |-> tile_grid_size]]
  /\ ImageIdle

\* preprocess(image), lines 203-210: the check for None, the copy and the
\* choice of the branch
Preprocess(image) ==
  /\ Fresh
  /\ preprocessor' = [preprocessor EXCEPT !.call =
       IF image = NoImage
         THEN [method |-> "preprocess", pc |-> 204, image |-> image,
               processed |-> NoImage, stages |-> <<>>, status |-> "ValueError"]
         ELSE [method |-> "preprocess",
               pc |-> Dispatch(preprocessor.preprocessing_method),
               image |-> image, processed |-> image, stages |-> <<>>,
               status |-> "running"]]
  /\ ImageIdle

\* one statement `processed = self.<stage>(processed)` of preprocess
Stage(name, lines, results) ==
  LET call == preprocessor.call
  IN  /\ call.method = "preprocess" /\ call.status = "running"
      /\ call.pc \in lines
      /\ \E out \in results :
           preprocessor' = [preprocessor EXCEPT !.call =
             [call EXCEPT !.processed = out,
                          !.stages = Append(call.stages, name),
                          !.pc = After(call.pc, out)]]
      /\ ImageIdle

\* processed = self.resize_image(processed); cv2.error on an empty image
ResizeImage ==
  IF preprocessor.call.status = "running" /\ IsEmpty(preprocessor.call.processed)
    THEN /\ preprocessor.call.method = "preprocess"
         /\ preprocessor.call.pc \in ResizeLines
         /\ preprocessor' = [preprocessor EXCEPT !.call.status = "cv2.error"]
         /\ ImageIdle
    ELSE Stage("resize_image", ResizeLines,
               resize_image(preprocessor, preprocessor.call.processed))

\* processed = self.reduce_noise(processed)
ReduceNoise ==
  Stage("reduce_noise", DenoiseLines,
        reduce_noise(preprocessor, preprocessor.call.processed))

\* processed = self.grayscale_equalization(processed)
GrayscaleEqualization ==
  Stage("grayscale_equalization", {213},
        grayscale_equalization(preprocessor, preprocessor.call.processed))

\* processed = self.color_equalization(processed)
ColorEqualization ==
  Stage("color_equalization", {218},
        color_equalization(preprocessor, preprocessor.call.processed))

\* processed = self.apply_clahe_grayscale(processed)
ApplyClaheGrayscale ==
  Stage("apply_clahe_grayscale", {223, 249},
        apply_clahe_grayscale(preprocessor, preprocessor.call.processed))

\* processed = self.apply_clahe_color(processed)
ApplyClaheColor ==
  Stage("apply_clahe_color", {228, 247},
        apply_clahe_color(preprocessor, preprocessor.call.processed))

\* processed = self.normalize_brightness(processed)
NormalizeBrightness ==
  Stage("normalize_brightness", {233, 252},
        {normalize_brightness(preprocessor.call.processed, target_brightness)})

\* processed = self.enhance_contrast(processed)
EnhanceContrast ==
  Stage("enhance_contrast", {238, 255},
        enhance_contrast(preprocessor, preprocessor.call.processed))

\* line 257: return processed
ReturnProcessed ==
  /\ preprocessor.call.method = "preprocess" /\ Serving
  /\ preprocessor.call.pc = 257
  /\ preprocessor' = [preprocessor EXCEPT !.call.status = "returned"]
  /\ ImageIdle

\* normalize_brightness(image) called on its own
CallNormalizeBrightness(image) ==
  /\ Fresh
  /\ preprocessor' = [preprocessor EXCEPT !.call =
       [method |-> "normalize_brightness",
        pc |-> IF IsLit(image) THEN 173 ELSE 175,
        image |-> image,
        processed |-> normalize_brightness(image, target_brightness),
        stages |-> <<>>, status |-> "returned"]]
  /\ ImageIdle

NextImage ==
  \/ \E method \in PreprocessingMethod : SetPreprocessingMethod(method)
  \/ \E parameters \in {<<3, <<8, 8>>>>, <<2, <<4, 4>>>>} :
       SetClaheParameters(parameters[1], parameters[2])
  \/ \E image \in InputFrames \cup {NoImage} : Preprocess(image)
  \/ ResizeImage
  \/ ReduceNoise
  \/ GrayscaleEqualization
  \/ ColorEqualization
  \/ ApplyClaheGrayscale
  \/ ApplyClaheColor
  \/ NormalizeBrightness
  \/ EnhanceContrast
  \/ ReturnProcessed
  \/ \E image \in RowFrames : CallNormalizeBrightness(image)

SpecImage == ImageInit /\ [][NextImage]_vars

\* ----------------------------------------------------------- reply generation
\* src/backend/gemini_client.py, GeminiClient.get_response

\* what requests.post and the decoding of its response can come to:
\* a 200 response with a candidate text, a 200 response without candidates,
\* a 200 response whose candidate has no parts[0]['text'] (IndexError or
\* KeyError at line 154), a 200 response that is not JSON (line 148 raises),
\* a response of another status, a timeout, another exception of requests.post
ApiOutcomes ==
  {"candidates", "no_candidates", "bad_candidate", "bad_json", "status_500",
   "timeout", "connection_error"}

\* the outcomes that leave get_response without a generated text
ApiFailures ==
  {"bad_candidate", "bad_json", "status_500", "timeout", "connection_error"}

\* the dict fallback_responses (first sentence of each text)
fallback_responses ==
  [sad     |-> "I can sense that you're going through a difficult time.",
   angry   |-> "I understand you're feeling frustrated or angry.",
   fear    |-> "I can see you might be feeling anxious or worried.",
   happy   |-> "It's wonderful to see you in good spirits!",
   neutral |-> "Hello! I'm here to listen and support you."]

\* _get_fallback_response(face_emotion, text_emotion)
get_fallback_response(face_emotion, text_emotion) ==
  LET primary_emotion ==
        IF face_emotion # "neutral" THEN face_emotion ELSE text_emotion
  IN  Get(fallback_responses, primary_emotion, fallback_responses["neutral"])

\* the statement get_response continues with after requests.post (line 145)
AfterPost(api) ==
  CASE api \in {"candidates", "no_candidates", "bad_candidate", "bad_json",
                "status_500"} -> 147
    [] api = "timeout"        -> 161
    [] OTHER                  -> 164

\* the value get_response returns, given what the request came to
get_response(face_emotion, text_emotion, api) ==
  CASE api = "candidates"    -> "generated"
    [] api = "no_candidates" ->
         "I understand how you're feeling. Can you tell me more about what's on your mind?"
    [] OTHER -> get_fallback_response(face_emotion, text_emotion)

GenerationIdle ==
  UNCHANGED <<active_sessions, sid_order, rooms, conn, clock, received,
              handlers, emitted, finished, detection, preprocessor, app>>

\* get_response(face_emotion, text_emotion, user_message) has built the prompt
\* and the request data (lines 108-144) and is about to post them
GenerationInit ==
  /\ Init!1 /\ Init!2 /\ Init!3 /\ Init!4 /\ Init!5 /\ Init!6 /\ Init!7
  /\ Init!8 /\ Init!9 /\ Init!10 /\ Init!11 /\ Init!13
  /\ \E face_emotion \in FaceLabels, text_emotion \in emotion_labels :
       generation = [pc |-> 145, face_emotion |-> face_emotion,
                     text_emotion |-> text_emotion, api |-> "",
                     returned |-> "", status |-> "running"]

\* line 145: response = requests.post(url, headers, json, timeout=30)
RequestsPost(api) ==
  /\ generation.pc = 145
  /\ generation' = [generation EXCEPT !.api = api, !.pc = AfterPost(api)]
  /\ GenerationIdle

\* lines 147-166: the return statement the outcome leads to
ReturnResponse ==
  /\ generation.pc \in {147, 161, 164}
  /\ generation' = [generation EXCEPT
       !.pc = 0, !.status = "returned",
       !.returned = get_response(generation.face_emotion,
                                 generation.text_emotion, generation.api)]
  /\ GenerationIdle

NextGeneration ==
  \/ \E api \in ApiOutcomes : RequestsPost(api)
  \/ ReturnResponse

SpecGeneration == GenerationInit /\ [][NextGeneration]_vars

\* ----------------------------------------------------------------- HTTP routes
\* src/backend/app.py, process_frame and process_text.  The server handles
\* each request in a worker of its own; the workers share the module state
\* conversation_history and current_emotions and interleave between the
\* statements that touch it.

\* the text before the comma of a data URL
DataUrlPrefix == "data:image/jpeg;base64"

\* values of 'frame', each given by its pieces between commas: a data URL
\* of a JPEG image, the same base64 text without the prefix, a data URL whose
\* payload is not base64 (wrong padding), and a data URL whose payload is the
\* base64 text of bytes that are no image
FrameStrings ==
  {<<DataUrlPrefix, "base64(jpeg)">>, <<"base64(jpeg)">>,
   <<DataUrlPrefix, "not base64">>, <<DataUrlPrefix, "base64(no image)">>}

FrameBodies == {NoBody, JsonBody(<<>>)} \cup
               {JsonBody([frame |-> frame]) : frame \in FrameStrings}
TextBodies  == {NoBody, JsonBody(<<>>), JsonBody([text |-> "hello"])}

\* base64.b64decode(frame_data): the bytes, or binascii.Error
B64Decode(frame_data) ==
  CASE frame_data = "base64(jpeg)"     -> "jpeg"
    [] frame_data = "base64(no image)" -> "no image"
    [] OTHER                           -> "binascii.Error"

\* cv2.imdecode(frame_array, cv2.IMREAD_COLOR): a BGR frame, or None
ImDecode(frame_bytes) == IF frame_bytes = "jpeg" THEN "frame" ELSE None

\* the return statement the lines 61-72 of process_frame end in for a body,
\* or 0 when the frame is decoded and the handler goes on: get_json() on a
\* request without a JSON body, [1] on a string without a comma (IndexError)
\* and b64decode on a text that is not base64 raise, and every exception ends
\* in the except clause of lines 89-91
FrameExit(body) ==
  IF ~body.json THEN 91
  ELSE IF ~HasKey(body.data, "frame") THEN 63
  ELSE LET pieces == body.data["frame"]
       IN  IF Len(pieces) < 2 THEN 91
           ELSE IF B64Decode(pieces[2]) = "binascii.Error" THEN 91
           ELSE IF ImDecode(B64Decode(pieces[2])) = None THEN 72
           ELSE 0

\* the return statement the lines 101-103 of process_text end in, or 0
TextExit(body) ==
  IF ~body.json THEN 135
  ELSE IF ~HasKey(body.data, "text") THEN 103
  ELSE 0

\* the status of the error response returned at a line
ExitStatus(line) == IF line \in {63, 72, 103} THEN 400 ELSE 500

\* the JSON of the error response returned at a line
ExitJson(line) ==
  CASE line = 63  -> [error |-> "No frame data provided"]
    [] line = 72  -> [error |-> "Invalid image data"]
    [] line = 91  -> [error |-> "Frame processing failed"]
    [] line = 103 -> [error |-> "No text provided"]
    [] OTHER      -> [error |-> "Text processing failed"]

\* line 130: 'conversation_id': len(conversation_history) - 1
ConversationId(history) == Len(history) - 1

AppIdle ==
  UNCHANGED <<active_sessions, sid_order, rooms, conn, clock, received,
              handlers, emitted, finished, detection, preprocessor, generation>>

AppInit ==
  /\ Init!1 /\ Init!2 /\ Init!3 /\ Init!4 /\ Init!5 /\ Init!6 /\ Init!7
  /\ Init!8 /\ Init!9 /\ Init!10 /\ Init!11 /\ Init!12
  /\ app = AppStart

\* a worker goes on to the statement at pc
Proceed(w, request) ==
  [app EXCEPT !.requests[w] = request, !.answered = NoResponse]

\* a worker sends its response and is free again
Respond(state, w, status, json) ==
  [state EXCEPT
     !.requests[w] = NoRequest,
     !.answered = [route |-> state.requests[w].route,
                   body |-> state.requests[w].body,
                   status |-> status, json |-> json,
                   appended |-> state.requests[w].appended]]

\* POST /api/process_frame, lines 61-78: the body is parsed, the frame is
\* decoded, preprocessed and classified
ProcessFrame(w, body) ==
  /\ app.requests[w] = NoRequest
  /\ app.received < MaxRequests
  /\ LET request == [NoRequest EXCEPT !.route = "process_frame", !.body = body]
         started == [app EXCEPT !.received = @ + 1, !.requests[w] = request]
     IN  IF FrameExit(body) # 0
           THEN app' = Respond(started, w, ExitStatus(FrameExit(body)),
                               ExitJson(FrameExit(body)))
           ELSE \E face_emotion \in {"neutral", "happy"} :
                  app' = [started EXCEPT
                            !.answered = NoResponse,
                            !.requests[w].pc = 81,
                            !.requests[w].emotion = face_emotion]
  /\ AppIdle

\* line 81: current_emotions['face_emotion'] = face_emotion
FrameSetEmotion(w) ==
  /\ app.requests[w].route = "process_frame" /\ app.requests[w].pc = 81
  /\ app' = [Proceed(w, [app.requests[w] EXCEPT !.pc = 83]) EXCEPT
               !.current_emotions.face_emotion = app.requests[w].emotion]
  /\ AppIdle

\* lines 83-87: return jsonify({...})
FrameRespond(w) ==
  /\ app.requests[w].route = "process_frame" /\ app.requests[w].pc = 83
  /\ app' = Respond(app, w, 200, [face_emotion |-> app.requests[w].emotion])
  /\ AppIdle

\* POST /api/process_text, lines 101-108: the body is parsed and the text is
\* classified
ProcessText(w, body) ==
  /\ app.requests[w] = NoRequest
  /\ app.received < MaxRequests
  /\ LET request == [NoRequest EXCEPT !.route = "process_text", !.body = body]
         started == [app EXCEPT !.received = @ + 1, !.requests[w] = request]
     IN  IF TextExit(body) # 0
           THEN app' = Respond(started, w, ExitStatus(TextExit(body)),
                               ExitJson(TextExit(body)))
           ELSE \E text_emotion \in {"neutral", "sadness"} :
                  app' = [started EXCEPT
                            !.answered = NoResponse,
                            !.requests[w].pc = 109,
                            !.requests[w].emotion = text_emotion]
  /\ AppIdle

\* line 109: current_emotions['text_emotion'] = text_emotion
TextSetEmotion(w) ==
  /\ app.requests[w].route = "process_text" /\ app.requests[w].pc = 109
  /\ app' = [Proceed(w, [app.requests[w] EXCEPT !.pc = 112]) EXCEPT
               !.current_emotions.text_emotion = app.requests[w].emotion]
  /\ AppIdle

\* lines 112-116: ai_response = gemini_client.get_response(
\* current_emotions['face_emotion'], text_emotion, user_text)
TextGetResponse(w, api) ==
  /\ app.requests[w].route = "process_text" /\ app.requests[w].pc = 112
  /\ app' = Proceed(w, [app.requests[w] EXCEPT
               !.pc = 125,
               !.ai_response = get_response(app.current_emotions.face_emotion,
                                            app.requests[w].emotion, api)])
  /\ AppIdle

\* lines 119-125: conversation_history.append(conversation_entry); the
\* timestamp of the entry is left out
TextAppend(w) ==
  /\ app.requests[w].route = "process_text" /\ app.requests[w].pc = 125
  /\ app' = [Proceed(w, [app.requests[w] EXCEPT
                           !.pc = 127,
                           !.appended = Len(app.conversation_history)]) EXCEPT
               !.conversation_history =
                  Append(@, [user_message |-> app.requests[w].body.data["text"],
                             user_emotion |-> app.requests[w].emotion,
                             ai_response  |-> app.requests[w].ai_response])]
  /\ AppIdle

\* lines 127-131: return jsonify({...})
TextRespond(w) ==
  /\ app.requests[w].route = "process_text" /\ app.requests[w].pc = 127
  /\ app' = Respond(app, w, 200,
                    [ai_response |-> app.requests[w].ai_response,
                     text_emotion |-> app.requests[w].emotion,
                     conversation_id |-> ConversationId(app.conversation_history)])
  /\ AppIdle

NextApp ==
  \E w \in Workers :
    \/ \E body \in FrameBodies : ProcessFrame(w, body)
    \/ FrameSetEmotion(w)
    \/ FrameRespond(w)
    \/ \E body \in TextBodies : ProcessText(w, body)
    \/ TextSetEmotion(w)
    \/ \E api \in {"candidates", "timeout"} : TextGetResponse(w, api)
    \/ TextAppend(w)
    \/ TextRespond(w)

SpecApp == AppInit /\ [][NextApp]_vars

\* ===================================================================== claims
InSeq(x, seq) == \E i \in 1..Len(seq) : seq[i] = x
Count(x, seq) == Cardinality({i \in 1..Len(seq) : seq[i] = x})
Registered(c, s) == HasKey(active_sessions, c) /\ active_sessions[c].session_id = s
UpdateBroadcasts == {"emotion_broadcast", "video_status_update", "mic_status_update"}

\* C1: an emotion_update of participant P registered in session S is
\* delivered as emotion_broadcast to every other participant registered in S
\* and to no participant registered in a session other than S.
C1_FanOut ==
  emitted.event = "emotion_broadcast" =>
    LET P == emitted.sid
        S == active_sessions[P].session_id
    IN  /\ \A c \in Conns \ {P} : Registered(c, S) => c \in emitted.to
        /\ \A c \in emitted.to : HasKey(active_sessions, c) => Registered(c, S)

\* C2: after a connection joined session B (having joined A before without
\* leaving) it is fully in B: get_session_info of any other session does not
\* list it, get_session_info(B) lists it exactly once, and it is in the
\* broadcast room of no other session.
C2_FullyMoved ==
  finished.event = "join_session" =>
    LET c == finished.sid
        B == finished.session_id
    IN  /\ Count(c, GetSessionInfo(B).clients) = 1
        /\ \A A \in SessionIds \ {B} :
             /\ ~InSeq(c, GetSessionInfo(A).clients)
             /\ c \notin RoomMembers(A)

\* C3: an emotion_update handler racing with the disconnect handler of the
\* same connection ends in one of two outcomes: merged and broadcast (it
\* returns from line 62 having emitted), or rejected as not joined (it
\* returns from the guard at line 58, nothing emitted); it is never aborted
\* by an error and never stops between the mutation and the broadcast.
C3_TwoOutcomes ==
  (finished.event = "emotion_update" /\ conn[finished.sid] # "open") =>
    /\ finished.status = "done"
    /\ \/ finished.pc = 62 /\ emitted.event = "emotion_broadcast"
       \/ finished.pc = 58 /\ emitted = NoEmit

\* C4: no statement of an update or relay handler (emotion_update,
\* video_status, mic_status, message_sent, ai_response) creates a registry
\* entry for a connection that has none, in particular not after the
\* disconnect handler deleted it.
C4_NoResurrection ==
  [][\A t \in Tasks :
       (/\ handlers[t].event \in UpdateEvents \cup RelayEvents
        /\ handlers'[t] # handlers[t]
        /\ ~HasKey(active_sessions, handlers[t].sid))
       => ~HasKey(active_sessions', handlers[t].sid)]_vars

\* an update handler that passed its guard was aborted at the mutation after
\* the disconnect handler of its connection had deleted the entry
C4_Witness ==
  /\ finished.event \in UpdateEvents
  /\ finished.status = "raised"
  /\ finished.pc = MutateLine(finished.event)
  /\ conn[finished.sid] = "closed"
  /\ ~HasKey(active_sessions, finished.sid)

\* C5: a connection id is listed by get_session_info for at most one
\* session id and appears in get_all_sessions under at most one session id.
C5_AtMostOneSession ==
  \A c \in Conns :
    /\ Cardinality({s \in SessionIds : InSeq(c, GetSessionInfo(s).clients)}) <= 1
    /\ Cardinality({s \in DOMAIN GetAllSessions :
                      InSeq(c, GetAllSessions[s].clients)}) <= 1

\* a connection that joined both sessions in succession, next to another
\* participant registered in the session it left
C5_Witness ==
  \E c, d \in Conns :
    /\ rooms[c] = SessionIds /\ Registered(c, "default")
    /\ Registered(d, "A")

\* C6: after an emotion_update of a joined participant every field present
\* in the payload has the supplied value in the participant's emotion record
\* and every emotion field absent from the payload keeps its previous value.
C6_Merge ==
  [][(finished'.event = "emotion_update" /\ finished'.pc = 62) =>
       LET c == finished'.sid
           data == finished'.data
       IN  \A k \in {"face", "text"} :
             active_sessions'[c].emotions[k] =
               IF HasKey(data, k) THEN data[k] ELSE active_sessions[c].emotions[k]]_vars

\* a payload naming only 'face' was merged into a record whose 'text' was
\* not the default
C6_Witness ==
  /\ finished.event = "emotion_update" /\ finished.pc = 62
  /\ DOMAIN finished.data = {"face"}
  /\ active_sessions[finished.sid].emotions.text = "joy"

\* C7 as claimed: the payload of an emotion_broadcast equals the sender's
\* emotion record as it stands after the merge.
C7_MergedPayload ==
  emitted.event = "emotion_broadcast" =>
    emitted.data = active_sessions[emitted.sid].emotions

\* C7 amended: the payload of an emotion_broadcast is the payload of the
\* emotion_update that triggered it, as received (the supplied fields only).
C7_PayloadAsReceived ==
  emitted.event = "emotion_broadcast" =>
    /\ finished.event = "emotion_update"
    /\ emitted.sid = finished.sid
    /\ emitted.data = finished.data

\* a partial payload was broadcast
C7_Witness ==
  /\ emitted.event = "emotion_broadcast"
  /\ DOMAIN emitted.data = {"text"}
  /\ active_sessions[emitted.sid].emotions.face = "joy"

\* C8: at the moment an emotion_broadcast, video_status_update or
\* mic_status_update is emitted the sender's record in the registry holds
\* the value that is broadcast.
C8_RegistryReflectsBroadcast ==
  emitted.event \in UpdateBroadcasts =>
    /\ HasKey(active_sessions, emitted.sid)
    /\ LET rec == active_sessions[emitted.sid] IN
         CASE emitted.event = "emotion_broadcast" ->
                \A k \in DOMAIN emitted.data :
                  /\ HasKey(rec.emotions, k)
                  /\ rec.emotions[k] = emitted.data[k]
           [] emitted.event = "video_status_update" ->
                /\ HasKey(rec, "video_on")
                /\ rec.video_on = Get(emitted.data, "video_on", FALSE)
           [] emitted.event = "mic_status_update" ->
                /\ HasKey(rec, "mic_on")
                /\ rec.mic_on = Get(emitted.data, "mic_on", FALSE)

\* C9: an update or relay handler that finds no registry entry for its
\* connection at its guard returns there: active_sessions is unchanged,
\* nothing is emitted and nothing is raised.
C9_NotJoinedNoOp ==
  [][\A t \in Tasks :
       (/\ handlers[t].event \in UpdateEvents \cup RelayEvents
        /\ handlers[t].pc = CheckLine(handlers[t].event)
        /\ handlers'[t] # handlers[t]
        /\ ~HasKey(active_sessions, handlers[t].sid))
       => /\ active_sessions' = active_sessions
          /\ sid_order' = sid_order
          /\ emitted' = NoEmit
          /\ handlers'[t] = Idle
          /\ finished' = [handlers[t] EXCEPT !.status = "done"]]_vars

\* a handler of a connection that is already disconnected returned at its guard
C9_Witness ==
  /\ finished.event \in UpdateEvents \cup RelayEvents
  /\ finished.status = "done"
  /\ finished.pc = CheckLine(finished.event)
  /\ conn[finished.sid] = "closed"
  /\ emitted = NoEmit

C11_RejoinIdempotent ==
  [][\A c \in Conns, S \in SessionIds :
       (/\ finished'.event = "join_session"
        /\ finished'.sid = c /\ finished'.session_id = S
        /\ Registered(c, S))
       => /\ DOMAIN active_sessions' = DOMAIN active_sessions
          /\ Count(c, sid_order') = 1
          /\ GetSessionInfo(S)' = GetSessionInfo(S)
          /\ Count(c, (GetSessionInfo(S).clients)') = 1
          /\ \A d \in DOMAIN active_sessions \ {c} :
               active_sessions'[d] = active_sessions[d]
          /\ active_sessions'[c] =
               [NewParticipant(S, 0) EXCEPT
                  !.connected_at = active_sessions'[c].connected_at]]_vars

\* a connection re-joined the only session it ever joined, after another
\* participant registered in the same session
C11_Witness ==
  /\ finished.event = "join_session"
  /\ rooms[finished.sid] = {finished.session_id}
  /\ active_sessions[finished.sid].connected_at > 1
  /\ sid_order[1] = finished.sid
  /\ GetSessionInfo(finished.session_id).active_clients = 2

\* C12: handling disconnect leaves no entry for the connection, raises
\* nothing, emits nothing and leaves every other participant's entry as it
\* was; handled for a connection that has no entry (a second time, or a
\* connection that never joined) it leaves the registry exactly as it was.
C12_RemovalIdempotent ==
  [][\A c \in Conns :
       (finished'.event = "disconnect" /\ finished'.sid = c)
       => /\ finished'.status = "done"
          /\ emitted' = NoEmit
          /\ ~HasKey(active_sessions', c)
          /\ DOMAIN active_sessions' = DOMAIN active_sessions \ {c}
          /\ \A d \in DOMAIN active_sessions \ {c} :
               active_sessions'[d] = active_sessions[d]
          /\ sid_order' = SelectSeq(sid_order, LAMBDA d : d # c)
          /\ ~HasKey(active_sessions, c) =>
               active_sessions' = active_sessions /\ sid_order' = sid_order]_vars

\* the disconnect of a connection that had joined was handled a second time
\* (the two joins so far are those of c and d, and c has no entry any more)
\* while another participant is registered
C12_Witness ==
  \E c, d \in Conns :
    /\ c # d
    /\ finished = Done("disconnect", c, <<>>, 40, "")
    /\ conn[c] = "closed"
    /\ clock = 2
    /\ HasKey(active_sessions, d) /\ active_sessions[d].connected_at = 1
    /\ \A e \in Conns \ {c, d} : conn[e] = "new"

\* C13: a handled video_status (mic_status) event changes at most the
\* sender's video_on (mic_on): every other key of the sender's record and
\* every other record stay as they were, and when the payload does not
\* contain the flag the stored flag keeps its previous value (a flag never
\* set counting as off).
C13_MediaMerge ==
  [][\A c \in Conns, flag \in {"video_on", "mic_on"} :
       (/\ finished'.event = (IF flag = "video_on" THEN "video_status" ELSE "mic_status")
        /\ finished'.sid = c
        /\ finished'.pc = EmitLine(finished'.event))
       => /\ \A d \in DOMAIN active_sessions \ {c} :
               active_sessions'[d] = active_sessions[d]
          /\ DOMAIN active_sessions' = DOMAIN active_sessions
          /\ \A k \in DOMAIN active_sessions[c] \ {flag} :
               /\ HasKey(active_sessions'[c], k)
               /\ active_sessions'[c][k] = active_sessions[c][k]
          /\ DOMAIN active_sessions'[c] \subseteq DOMAIN active_sessions[c] \cup {flag}
          /\ IF HasKey(finished'.data, flag)
               THEN active_sessions'[c][flag] = finished'.data[flag]
               ELSE Get(active_sessions'[c], flag, FALSE) =
                      Get(active_sessions[c], flag, FALSE)]_vars

\* C14: a message_sent (ai_response) event of a joined participant is
\* forwarded as message_received (ai_message) with the payload received, to
\* every participant registered in the sender's session and to no
\* participant registered in another session, and the registry is unchanged.
C14_Relay ==
  [][\A c \in Conns :
       (/\ finished'.event \in RelayEvents
        /\ finished'.sid = c
        /\ HasKey(active_sessions, c))
       => LET S == active_sessions[c].session_id IN
            /\ finished'.status = "done"
            /\ emitted'.event = BroadcastName(finished'.event)
            /\ emitted'.data = finished'.data
            /\ emitted'.room = S
            /\ \A d \in Conns : Registered(d, S) => d \in emitted'.to
            /\ \A d \in emitted'.to : HasKey(active_sessions, d) => Registered(d, S)
            /\ active_sessions' = active_sessions
            /\ sid_order' = sid_order]_vars

\* C15: a call of get_session_info(s) or get_all_sessions() running next to
\* join_session and disconnect handlers does not change the registry, is not
\* aborted by an error, and returns the membership the registry had at one
\* instant between the start and the end of the call, each connection listed
\* once and active_clients being the length of clients.
SeqSet(seq) == {seq[i] : i \in 1..Len(seq)}
NoDup(seq)  == Cardinality(SeqSet(seq)) = Len(seq)
ReturnsSnapshot(f, m) ==
  LET r == f.locals.result IN
    IF f.event = "get_session_info"
      THEN /\ r.session_id = f.data.session_id
           /\ r.active_clients = Len(r.clients)
           /\ NoDup(r.clients)
           /\ SeqSet(r.clients) = {c \in DOMAIN m : m[c] = f.data.session_id}
      ELSE /\ DOMAIN r = {m[c] : c \in DOMAIN m}
           /\ \A s \in DOMAIN r :
                /\ NoDup(r[s].clients)
                /\ SeqSet(r[s].clients) = {c \in DOMAIN m : m[c] = s}
C15_ConsistentSnapshot ==
  [][/\ \A t \in Tasks :
          (IsReader(handlers[t]) /\ IsReader(handlers'[t])
           /\ handlers'[t].locals.yielded # handlers[t].locals.yielded)
          => active_sessions' = active_sessions /\ sid_order' = sid_order
     /\ finished'.event \in Introspections
          => /\ active_sessions' = active_sessions /\ sid_order' = sid_order
             /\ finished'.status = "done"
             /\ \E m \in finished'.locals.seen : ReturnsSnapshot(finished', m)]_vars

\* C16: the mutate-and-broadcast steps of two update handlers (emotion_update,
\* video_status, mic_status) running for participants of the same session do
\* not interleave: while one of them has mutated the registry and not yet
\* emitted its broadcast, no other one is between its mutation and its
\* broadcast.  Handlers for participants of different sessions are free.
InUpdate(h) ==
  /\ h.status = "running"
  /\ h.event \in UpdateEvents
  /\ h.pc \in {ReadLine(h.event), EmitLine(h.event)}
C16_UpdatesSerialize ==
  \A t, u \in Tasks :
    (/\ t # u
     /\ InUpdate(handlers[t]) /\ InUpdate(handlers[u])
     /\ HasKey(active_sessions, handlers[t].sid)
     /\ HasKey(active_sessions, handlers[u].sid))
    => active_sessions[handlers[t].sid].session_id #
         active_sessions[handlers[u].sid].session_id

\* the priorities as the specification states them: 3 for sadness, anger and
\* fear, 2 for joy, surprise and disgust, 1 for every other label
StatedPriority(label) ==
  IF label \in {"sadness", "anger", "fear"} THEN 3
  ELSE IF label \in {"joy", "surprise", "disgust"} THEN 2
  ELSE 1
Combined == detection.pc = 254

\* C17: when the face label and the text label are the same label a,
\* _combine_emotions returns a.
C17_FuseSame ==
  (Combined /\ detection.face_emotion = detection.text_emotion
            /\ detection.face_emotion # None)
    => detection.combined_emotion = detection.face_emotion

\* the same label of priority 1, other than neutral, on both channels
C17_Witness ==
  /\ Combined
  /\ detection.face_emotion = "love" /\ detection.text_emotion = "love"
  /\ detection.combined_emotion = "love"

\* C18: when the two labels have different priorities the label of the
\* higher priority is returned, whichever channel it is on (every ordered
\* pair of labels is an input, so both orders of each pair are covered).
C18_PriorityWins ==
  (/\ Combined
   /\ detection.face_emotion # None /\ detection.text_emotion # None
   /\ StatedPriority(detection.face_emotion) # StatedPriority(detection.text_emotion))
    => /\ detection.combined_emotion =
            IF StatedPriority(detection.face_emotion) >
                 StatedPriority(detection.text_emotion)
              THEN detection.face_emotion ELSE detection.text_emotion
       /\ combine_emotions(detection.text_emotion, detection.face_emotion) =
            detection.combined_emotion

\* sadness on the face beats joy in the text
C18_Witness ==
  /\ Combined
  /\ detection.face_emotion = "sadness" /\ detection.text_emotion = "joy"
  /\ detection.combined_emotion = "sadness"

\* C19: when the two labels differ and have the same priority the text
\* label is returned.
C19_TextWinsTies ==
  (/\ Combined
   /\ detection.face_emotion # None /\ detection.text_emotion # None
   /\ detection.face_emotion # detection.text_emotion
   /\ StatedPriority(detection.face_emotion) = StatedPriority(detection.text_emotion))
    => detection.combined_emotion = detection.text_emotion

\* joy on the face, surprise in the text
C19_Witness ==
  /\ Combined
  /\ detection.face_emotion = "joy" /\ detection.text_emotion = "surprise"
  /\ detection.combined_emotion = "surprise"

\* C20: an unset label counts as neutral: the result is what it is with
\* neutral in the place of every unset input, and it is never the unset value.
NeutralIfUnset(label) == IF label = None THEN "neutral" ELSE label
C21_TargetSize ==
  /\ [](LET call == preprocessor.call
        IN  call.method = "preprocess" =>
              /\ call.status = "returned" =>
                   /\ call.processed.shape[1] = preprocessor.target_size[2]
                   /\ call.processed.shape[2] = preprocessor.target_size[1]
              /\ call.status \in {"ValueError", "cv2.error"} =>
                   (call.image = NoImage \/ IsEmpty(call.image)))
  /\ [][(/\ preprocessor.call.status = "running"
         /\ preprocessor'.call.status = "running"
         /\ preprocessor.call.pc \notin ResizeLines)
          => /\ preprocessor'.call.processed.shape[1] =
                  preprocessor.call.processed.shape[1]
             /\ preprocessor'.call.processed.shape[2] =
                  preprocessor.call.processed.shape[2]]_vars

\* a 1x1 BGR frame came back from the grayscale strategy two rows high and one
\* column wide, the target size being (width 1, height 2)
C21_Witness ==
  /\ preprocessor.call.method = "preprocess"
  /\ preprocessor.call.status = "returned"
  /\ preprocessor.preprocessing_method = "grayscale_equalization"
  /\ preprocessor.target_size = <<1, 2>>
  /\ preprocessor.call.image.shape = <<1, 1, 3>>
  /\ preprocessor.call.processed.shape = <<2, 1>>
  /\ Len(preprocessor.call.stages) = 3

\* C22: normalize_brightness of an all-black image does not raise, takes the
\* branch without the division and returns the entries of its input; for an
\* image of non-zero mean every entry of the result is the entry times
\* target/mean, truncated, and clamped to 0..255
C22_Brightness ==
  LET call  == preprocessor.call
      image == call.image
      out   == call.processed
      n     == Len(image.pixels)
      total == Sum(image.pixels)
  IN  call.method = "normalize_brightness" =>
        /\ call.status = "returned"
        /\ out.shape = image.shape
        /\ Len(out.pixels) = n
        /\ (\A i \in 1..n : image.pixels[i] = 0) => (out = image /\ call.pc = 175)
        /\ total > 0 =>
             \A i \in 1..n :
               /\ out.pixels[i] \in 0..255
               /\ out.pixels[i] * total <= image.pixels[i] * target_brightness * n
               /\ \/ out.pixels[i] = 255
                  \/ (out.pixels[i] + 1) * total >
                       image.pixels[i] * target_brightness * n

\* an image of mean 355/3 was normalized: 100 became 108 and 255, which the
\* factor takes to 275, was clamped to 255
C22_Witness ==
  /\ preprocessor.call.method = "normalize_brightness"
  /\ preprocessor.call.image.pixels = <<100, 0, 255>>
  /\ preprocessor.call.processed.pixels = <<108, 0, 255>>

\* the stages the spec lists for a strategy applied to an image
StatedStages(method, image) ==
  <<"resize_image", "reduce_noise">> \o
  CASE method = "grayscale_equalization"   -> <<"grayscale_equalization">>
    [] method = "color_equalization"       -> <<"color_equalization">>
    [] method = "clahe"                    -> <<"apply_clahe_grayscale">>
    [] method = "clahe_color"              -> <<"apply_clahe_color">>
    [] method = "brightness_normalization" -> <<"normalize_brightness">>
    [] method = "contrast_enhancement"     -> <<"enhance_contrast">>
    [] method = "combined" ->
         <<IF Len(image.shape) = 3 THEN "apply_clahe_color"
                                   ELSE "apply_clahe_grayscale",
           "normalize_brightness", "enhance_contrast">>

\* C23: a call of preprocess that returns has run resize, then denoise, then
\* the enhancement(s) of the selected strategy and nothing else (for combined:
\* CLAHE, color for a 3-channel frame and grayscale otherwise, brightness
\* normalization, contrast enhancement); set_clahe_parameters changes neither
\* the selected strategy nor the call
C23_StageOrder ==
  [][/\ (preprocessor.call.status = "running" /\
         preprocessor'.call.status = "returned")
          => preprocessor'.call.stages =
               StatedStages(preprocessor.preprocessing_method,
                            preprocessor.call.image)
     /\ preprocessor'.clahe # preprocessor.clahe
          => /\ preprocessor'.preprocessing_method =
                  preprocessor.preprocessing_method
             /\ preprocessor'.call = preprocessor.call]_vars

\* after the CLAHE parameters were changed the combined strategy ran its five
\* stages on a grayscale frame
C23_Witness ==
  /\ preprocessor.call.method = "preprocess"
  /\ preprocessor.call.status = "returned"
  /\ preprocessor.preprocessing_method = "combined"
  /\ preprocessor.clahe = [clipLimit |-> 2, tileGridSize |-> <<4, 4>>]
  /\ Len(preprocessor.call.image.shape) = 2
  /\ preprocessor.call.stages =
       <<"resize_image", "reduce_noise", "apply_clahe_grayscale",
         "normalize_brightness", "enhance_contrast">>

\* C24: whenever the call of the generator fails (a status other than 200, a
\* timeout, any exception) get_response raises nothing and returns a
\* non-empty text of the fallback table, and when the face label or the text
\* label is not neutral that text is not the neutral fallback
C24_FallbackByEmotion ==
  (generation.api \in ApiFailures /\ generation.pc = 0) =>
    /\ generation.status = "returned"
    /\ generation.returned # ""
    /\ \E emotion \in DOMAIN fallback_responses :
         generation.returned = fallback_responses[emotion]
    /\ (generation.face_emotion # "neutral" \/ generation.text_emotion # "neutral")
         => generation.returned # fallback_responses["neutral"]

\* the requests the claim calls malformed: no body, the required field
\* missing, a frame string without the data-URL prefix, an image that cannot
\* be decoded
MalformedRequest(route, body) ==
  \/ ~body.json
  \/ /\ route = "process_text"
     /\ ~HasKey(body.data, "text")
  \/ /\ route = "process_frame"
     /\ \/ ~HasKey(body.data, "frame")
        \/ body.data["frame"][1] # DataUrlPrefix
        \/ body.data["frame"][Len(body.data["frame"])] # "base64(jpeg)"

\* C25: a malformed frame or text request is answered with a status in
\* 400..499 by a step that leaves current_emotions and conversation_history
\* as they were, and a well-formed request is answered with status 200
C25_RejectMalformed ==
  [][LET response == app'.answered
     IN  response.route \in {"process_frame", "process_text"} =>
           IF MalformedRequest(response.route, response.body)
             THEN /\ response.status \in 400..499
                  /\ app'.current_emotions = app.current_emotions
                  /\ app'.conversation_history = app.conversation_history
             ELSE response.status = 200]_vars

\* C29: conversation_history changes by appends only, a request answered
\* with an error has appended nothing, and a text request answered with
\* status 200 has appended one entry, its own, whose index is the
\* conversation_id of the response, also when requests are served concurrently
C29_ConversationId ==
  [][LET history  == app.conversation_history
         after    == app'.conversation_history
         response == app'.answered
     IN  /\ \/ after = history
            \/ /\ Len(after) = Len(history) + 1
               /\ SubSeq(after, 1, Len(history)) = history
         /\ (response.route # "none" /\ response.status # 200)
              => (response.appended < 0 /\ after = history)
         /\ (response.route = "process_text" /\ response.status = 200)
              => /\ response.appended \in 0..(Len(after) - 1)
                 /\ after[response.appended + 1].ai_response =
                      response.json["ai_response"]
                 /\ response.json["conversation_id"] = response.appended]_vars

\* C26: an emotion_update, video_status, mic_status, message_sent or
\* ai_response event of a participant, whatever its payload (keys session_id
\* and connected_at included), leaves the set of registry entries, the
\* sender's session_id and connected_at and every other participant's record
\* as they were
C26_NoMembershipChange ==
  [][\A c \in Conns :
       (finished'.sid = c /\ finished'.event \in UpdateEvents \cup RelayEvents
        /\ received' = received + 1)
         => /\ DOMAIN active_sessions' = DOMAIN active_sessions
            /\ sid_order' = sid_order
            /\ \A d \in DOMAIN active_sessions :
                 IF d = c
                   THEN /\ active_sessions'[d].session_id =
                             active_sessions[d].session_id
                        /\ active_sessions'[d].connected_at =
                             active_sessions[d].connected_at
                   ELSE active_sessions'[d] = active_sessions[d]]_vars

\* a participant of session "default" sent an emotion_update whose payload
\* names session_id "A"; beside another participant it is still in "default"
C26_Witness ==
  /\ finished.event = "emotion_update"
  /\ finished.data = RecordKeys
  /\ Registered(finished.sid, "default")
  /\ HasKey(active_sessions[finished.sid].emotions, "session_id")
  /\ Cardinality(DOMAIN active_sessions) = 2

\* C27: get_all_sessions lists exactly the sessions that have a registered
\* participant (a session whose last participant disconnected or moved to
\* another session is not listed), every registered connection is in the
\* clients list of one session only and once, and the clients list of a
\* listed session is the one get_session_info returns for that session
C27_GroupedRegistry ==
  LET sessions == GetAllSessions
  IN  /\ DOMAIN sessions =
           {active_sessions[c].session_id : c \in DOMAIN active_sessions}
      /\ \A c \in DOMAIN active_sessions :
           /\ Cardinality({s \in DOMAIN sessions :
                             InSeq(c, sessions[s].clients)}) = 1
           /\ Count(c, sessions[active_sessions[c].session_id].clients) = 1
      /\ \A s \in DOMAIN sessions :
           /\ sessions[s].session_id = s
           /\ sessions[s].clients = GetSessionInfo(s).clients
      /\ \A s \in SessionIds \ DOMAIN sessions :
           GetSessionInfo(s).active_clients = 0

\* two participants shared session "A", then one of them moved to "default":
\* both sessions are listed, each with its one participant
C27_Witness ==
  /\ finished.event = "join_session"
  /\ Registered(finished.sid, "default")
  /\ "A" \in rooms[finished.sid]
  /\ DOMAIN GetAllSessions = {"default", "A"}
  /\ Len(GetAllSessions["A"].clients) = 1
  /\ GetAllSessions["default"].clients = <<finished.sid>>

\* C28: once a connection is closed and no handler of it is in flight any
\* more (its join_session handler and its disconnect handler, which ran
\* concurrently, have both finished), the registry has no entry for it
C28_JoinDisconnectRace ==
  \A c \in Conns :
    (/\ conn[c] = "closed"
     /\ \A t \in Tasks : handlers[t].status = "running" => handlers[t].sid # c)
      => ~HasKey(active_sessions, c)

\* C30: for every pair of labels, those absent from the priority table
\* included, _combine_emotions returns one of the two labels, and a label
\* absent from the table is ranked like neutral: against a label of priority
\* 2 or 3 on the other channel it loses, and against any other label the tie
\* goes to the text label
C30_ClosedSelection ==
  LET face == detection.face_emotion
      text == detection.text_emotion
  IN  (Combined /\ face # None /\ text # None) =>
        /\ detection.combined_emotion \in {face, text}
        /\ (~HasKey(emotion_priority, face) /\ face # text)
             => detection.combined_emotion = text
        /\ (~HasKey(emotion_priority, text) /\ face # text)
             => detection.combined_emotion =
                  IF StatedPriority(face) >= 2 THEN face ELSE text
        /\ (~HasKey(emotion_priority, face) /\ text # "neutral")
             => detection.combined_emotion = combine_emotions("neutral", text)
        /\ (~HasKey(emotion_priority, text) /\ face # "neutral")
             => detection.combined_emotion =
                  IF combine_emotions(face, "neutral") = "neutral"
                    THEN text ELSE face

\* the face classifier's label 'sad', which the table does not list, lost to
\* the text label surprise of priority 2
C30_Witness ==
  /\ Combined
  /\ detection.face_emotion = "sad" /\ detection.text_emotion = "surprise"
  /\ detection.combined_emotion = "surprise"

====
